---- MODULE Spec2Model ----
(***************************************************************************)
(* EggGenderAI: the batch analysis orchestration of the React application. *)
(*                                                                         *)
(* App owns analysisRecords (the RecordStore) and the active tab.  Exactly *)
(* one analyzer component is mounted at a time (App.renderContent), so the *)
(* component state variables below (batchNumber, loading, files, results,  *)
(* error, rows, errors, isCameraOn, result) are those of the mounted       *)
(* component; switching tab unmounts it and mounts a fresh one.            *)
(*                                                                         *)
(* A step of the model is one browser task: a user event with the handler  *)
(* it runs, or the arrival of one asynchronous result (a FileReader event, *)
(* a service response, a camera permission answer) together with all the   *)
(* promise continuations (microtasks) that it makes runnable.              *)
(*                                                                         *)
(* Init is the application as constructed.  Spec starts from Prepared: the *)
(* states a user reaches from Init by choosing a tab and filling in the    *)
(* inputs of its component, nothing submitted yet; Init is one of them.    *)
(*                                                                         *)
(* ReportSpec is the reporting side: AnalysisChart and the CSV export over *)
(* a store that is filled record by record.  FairSpec is Spec for the      *)
(* sessions in which every outstanding read and request ends.              *)
(*                                                                         *)
(* Numbers are exact (a ratio is kept as numerator and denominator): the   *)
(* rounding of the doubles of the implementation is left out.  Also left   *)
(* out: capturedImage and feedbackGiven of LiveAnalyzer, the mobile menu,   *)
(* and the exit animation between two tabs.                                *)
(*                                                                         *)
(* A preview URL is the rank of its creation.  The clock `now` stands      *)
(* still in Spec, FairSpec and ReportSpec (their questions are untimed);   *)
(* TimedSpec is Spec with a clock that advances between two tasks.         *)
(*                                                                         *)
(* History variables: settled, lastSubmit, edits, dispatched, pickedOption,*)
(* exported, handles, revoked, the fields batch and item of a record,      *)
(* submittedAt of a submission, callFailed, nCalls and at of an item.      *)
(***************************************************************************)
EXTENDS Integers, Sequences, FiniteSets, TLC

\* ------------------------------------------------------------------ bounds
\* Items (images, rows, camera frames) submitted per session.
MaxItems == 3
\* Edits of the inputs (batch number, file list, row list, row fields) made
\* after the prepared state a session starts from.
MaxEdits == 1
\* Images in the file list of ImageAnalyzer.
MaxFiles == 2
\* Rows in the row list of ShapeIndexCalculator.
MaxRows == 2
\* Records in the store on the reporting side.
MaxRecords == 3
\* Ticks of the clock in a timed session.
MaxTime == 1

\* ----------------------------------------------------------------- strings
\* A string is a sequence of characters.
Whitespace == {" "}

\* String.prototype.trim, left part: drop leading whitespace.
RECURSIVE TrimStart(_)
TrimStart(s) ==
    IF s # <<>> /\ Head(s) \in Whitespace THEN TrimStart(Tail(s)) ELSE s

\* String.prototype.trim, right part: drop trailing whitespace.
RECURSIVE TrimEnd(_)
TrimEnd(s) ==
    IF s # <<>> /\ s[Len(s)] \in Whitespace
    THEN TrimEnd(SubSeq(s, 1, Len(s) - 1))
    ELSE s

\* String.prototype.trim.
Trim(s) == TrimEnd(TrimStart(s))

\* JavaScript truthiness of a string: the empty string is falsy.
Truthy(s) == s # <<>>

\* The characters of a string literal.
Chars(str) == [i \in 1..Len(str) |-> SubSeq(str, i, i)]

\* What the user can type into a batch-number field.
BatchInputs == { <<>>, <<" ">>, <<"A">> }

\* What an <input type="number"> delivers as its value: the empty string (also
\* for text the browser does not accept as a number) or a numeric literal.
FieldInputs == { <<>>, <<"0">>, <<"-", "4">>, <<"4">>, <<"5">> }

Digits == { "0", "1", "2", "3", "4", "5", "6", "7", "8", "9" }

DigitValue(c) ==
    CASE c = "0" -> 0 [] c = "1" -> 1 [] c = "2" -> 2 [] c = "3" -> 3
      [] c = "4" -> 4 [] c = "5" -> 5 [] c = "6" -> 6 [] c = "7" -> 7
      [] c = "8" -> 8 [] c = "9" -> 9

\* The value of the longest prefix of s made of digits, continuing from acc;
\* seen tells whether a digit was read.
RECURSIVE ParseDigits(_, _, _)
ParseDigits(s, acc, seen) ==
    IF s # <<>> /\ Head(s) \in Digits
    THEN ParseDigits(Tail(s), acc * 10 + DigitValue(Head(s)), TRUE)
    ELSE [nan |-> ~seen, v |-> acc]

\* parseFloat on the integer literals of the model: leading whitespace is
\* skipped, an optional sign is read, then the longest numeric prefix; NaN when
\* there is none.
ParseFloat(str) ==
    LET s == TrimStart(str)
        neg == s # <<>> /\ Head(s) = "-"
        body == IF s # <<>> /\ Head(s) \in {"-", "+"} THEN Tail(s) ELSE s
        p == ParseDigits(body, 0, FALSE)
    IN  [nan |-> p.nan, v |-> IF neg THEN 0 - p.v ELSE p.v]

\* -------------------------------------------------------- prediction service
\* GenderPredictionResult.  The fields are strings: nothing checks them.
Result(g, c, r) == [predictedGender |-> g, confidence |-> c, reasoning |-> r]

\* The place of a result that does not exist (an unsettled or rejected promise).
NoResult == Result("", "", "")

\* The objects JSON.parse can return for a response of the service.  The
\* response schema only asks for three strings, so a reply outside the
\* declared unions is possible.
JsonReplies ==
    { Result("Male", "High", "model"),
      Result("Female", "Medium", "model"),
      Result("Uncertain", "Low", "model"),
      Result("Unknown", "Unsure", "model") }

\* How a generateContent request can end: a response whose text parses, a
\* response whose text does not parse, or a thrown transport/service error.
ServiceOutcomes ==
    [kind : {"reply"}, body : JsonReplies]
        \cup [kind : {"badjson", "throw"}, body : {NoResult}]

\* getGenAI() returned null: the fallback of both predict functions.
MissingKeyResult == Result("Uncertain", "Low", "API Key is missing")

\* The catch block of predictEggGender.
ImageErrorResult == Result("Uncertain", "Low", "error: try a clearer image")

\* The catch block of predictEggGenderFromMeasurements.
MeasureErrorResult == Result("Uncertain", "Low", "error: try again")

\* The value predictEggGender resolves to, given how its request ended.  It
\* never rejects: every failure inside the try block becomes a result.
predictEggGender(out) ==
    IF out.kind = "reply" THEN out.body ELSE ImageErrorResult

\* The value predictEggGenderFromMeasurements resolves to.
predictEggGenderFromMeasurements(out) ==
    IF out.kind = "reply" THEN out.body ELSE MeasureErrorResult

\* Whether the request of a prediction call failed (transport error, service
\* error or unparseable response).
RequestFailed(out) == out.kind \in {"badjson", "throw"}

\* ------------------------------------------------------------------- state
VARIABLES
    apiKey,           \* whether import.meta.env.VITE_GEMINI_API_KEY is set
    activeTab,        \* App: the mounted analyzer
    analysisRecords,  \* App: the RecordStore
    batchNumber,      \* mounted component: the batch-number field
    loading,          \* mounted component: a submission of it is in flight
    results,          \* ImageAnalyzer / ShapeIndexCalculator: displayed list
    error,            \* ImageAnalyzer / LiveAnalyzer: the error banner
    files,            \* ImageAnalyzer: the file list
    rows,             \* ShapeIndexCalculator: the row list
    errors,           \* ShapeIndexCalculator: the validation error map
    isCameraOn,       \* LiveAnalyzer
    cameraAsked,      \* LiveAnalyzer: a getUserMedia request is unanswered
    result,           \* LiveAnalyzer: the displayed result (NoResult: null)
    pending,          \* the submissions in flight: id -> closure of the handler
    nextBatch,        \* number of submissions dispatched so far
    dispatched,       \* number of items dispatched so far
    edits,            \* number of edits of the inputs so far
    calls,            \* number of calls of predictEggGender[FromMeasurements]
    settled,          \* history: the submission the step just taken completed
    lastSubmit,       \* history: what the step just taken did, if a submit click
    selectedBatch,    \* AnalysisChart: the value of the batch filter
    pickedOption,     \* history: the <option> the user picked last in the filter
    exported,         \* history: the last CSV file downloaded, and from what
    handles,          \* number of preview URLs created (URL.createObjectURL)
    revoked,          \* the preview URLs revoked (URL.revokeObjectURL)
    now               \* the clock: what new Date() reads, in ticks

vars ==
    << apiKey, activeTab, analysisRecords, batchNumber, loading, results, error,
       files, rows, errors, isCameraOn, cameraAsked, result, pending, nextBatch,
       dispatched, edits, calls, settled, lastSubmit, selectedBatch,
       pickedOption, exported, handles, revoked, now >>

\* The preview URLs of the session: the k-th one created is k.
previewVars == << handles, revoked >>

\* The preview URLs of a file list.
Previews(fs) == { fs[k].preview : k \in 1..Len(fs) }

\* A cleanup that revokes nothing.
KeepPreviews(fs) == revoked

\* The cleanup of the effect of the render that showed the file list fs: it
\* revokes the preview of every file of fs.  React runs it when the component
\* renders with another `files` array and when the component is unmounted.
Cleanup(fs) == revoked \cup Previews(fs)

\* The state of the chart and of the export.
reportVars == << selectedBatch, pickedOption, exported >>

Tabs == { "image", "live", "calculator" }

\* The files the user can pick; the id is `${file.name}-${file.lastModified}`.
FileIds == { "a.png-1", "b.png-2" }

\* error === null
NoError == "null"

\* 'all': the initial selectedBatch and the value of the "All Batches" option.
All == Chars("all")

\* The <option>s of the batch filter; that of a batch has it as label and value.
AllBatchesOption == [label |-> Chars("All Batches"), value |-> All]

BatchOption(batch) == [label |-> batch, value |-> batch]

\* exported when nothing has been downloaded.
NoExport == [of |-> <<>>, csvContent |-> <<>>]

\* An errors map with no entry.
NoErrors == [k \in {} |-> ""]

\* The measurements of an item that has none (an image, a camera frame).
NoInputs == [length |-> 0, width |-> 0, weight |-> 0]

\* A ratio num/den, kept exact.
Ratio(n, d) == [num |-> n, den |-> d]

NoShapeIndex == Ratio(0, 1)

\* One per-item promise of a submission.  st is "reading" (FileReader at
\* work, no prediction call yet), "called" (the request of its prediction call
\* is outstanding), "fulfilled" or "rejected".  callFailed is history: the
\* request of its prediction call failed.  nCalls is history: the number of
\* calls of predictEggGender[FromMeasurements] made for the item.
\* preview is the preview URL of the image (0 when the item is no image); at
\* is history: the time the promise last moved.
Item(id, st, value, inputs, shapeIndex) ==
    [id |-> id, st |-> st, value |-> value, inputs |-> inputs,
     shapeIndex |-> shapeIndex, callFailed |-> FALSE,
     nCalls |-> IF st = "reading" THEN 0 ELSE 1, preview |-> 0, at |-> now]

\* The closure of a running handler: what it captured when it was called, and
\* whether the component instance whose setters it holds is still mounted.
Closure(kind, bn, items) ==
    [kind |-> kind, batchNumber |-> bn, mounted |-> TRUE, items |-> items,
     submittedAt |-> now]

\* settled when the step completed no submission.
NoSettled ==
    [id |-> 0, kind |-> "", batchNumber |-> <<>>, mounted |-> FALSE,
     items |-> <<>>, succeeded |-> <<>>, failedLogged |-> 0, before |-> 0,
     submittedAt |-> 0]

IsSettled(it) == it.st \in { "fulfilled", "rejected" }

\* Promise.allSettled(analysisPromises) has resolved.
AllSettled(items) == \A i \in 1..Len(items) : IsSettled(items[i])

\* The fulfilled entries in the order in which their promises settled.
BySettleTime(items) ==
    LET f == { i \in 1..Len(items) : items[i].st = "fulfilled" }
        rank(i) == 1 + Cardinality({ j \in f :
                           \/ items[j].at < items[i].at
                           \/ items[j].at = items[i].at /\ j < i })
    IN  [k \in 1..Cardinality(f) |-> CHOOSE i \in f : rank(i) = k]

\* The indices of the fulfilled entries of settledResults, in order.
FulfilledIdx(items) ==
    SelectSeq([i \in 1..Len(items) |-> i], LAMBDA i : items[i].st = "fulfilled")

\* The number of rejected entries of settledResults.
RejectedCount(items) ==
    Cardinality({ i \in 1..Len(items) : items[i].st = "rejected" })

\* A record stamped with the time its submission was made.
StampedAtSubmission(bn, type, gender, confidence, reasoning, b, i) ==
    [timestamp |-> IF b \in DOMAIN pending THEN pending[b].submittedAt ELSE now,
     batchNumber |-> bn, analysisType |-> type, gender |-> gender,
     confidence |-> confidence, reasoning |-> reasoning, batch |-> b, item |-> i]

\* The record a handler passes to onAnalysisComplete: its timestamp is
\* new Date().toISOString(), read when the object literal is evaluated.  The
\* timestamp is kept as the clock reading: the ISO text has a fixed width, so
\* the order of the texts is the order of the readings.  batch and item are
\* history: the submission and the item of it that the record was built for.
AnalysisRecord(bn, type, gender, confidence, reasoning, b, i) ==
    [timestamp |-> now,
     batchNumber |-> bn, analysisType |-> type, gender |-> gender,
     confidence |-> confidence, reasoning |-> reasoning, batch |-> b, item |-> i]

\* A store that puts the newest record first.
PrependRecord(prev, record) == << record >> \o prev

\* App.handleNewRecord: setAnalysisRecords(prev => [...prev, record]).
handleNewRecord(prev, record) == Append(prev, record)

\* The calls of onAnalysisComplete of one forEach, applied in order.
RECURSIVE AppendAll(_, _)
AppendAll(prev, recs) ==
    IF recs = <<>> THEN prev
    ELSE AppendAll(handleNewRecord(prev, Head(recs)), Tail(recs))

Init ==
    /\ apiKey \in BOOLEAN
    /\ activeTab = "image"
    /\ analysisRecords = <<>>
    /\ batchNumber = <<>>
    /\ loading = FALSE
    /\ results = <<>>
    /\ error = NoError
    /\ files = <<>>
    /\ rows = <<>>
    /\ errors = NoErrors
    /\ isCameraOn = FALSE
    /\ cameraAsked = FALSE
    /\ result = NoResult
    /\ pending = [b \in {} |-> NoSettled]
    /\ nextBatch = 0
    /\ dispatched = 0
    /\ edits = 0
    /\ calls = 0
    /\ settled = NoSettled
    /\ lastSubmit = "none"
    /\ selectedBatch = All
    /\ pickedOption = AllBatchesOption
    /\ exported = NoExport
    /\ handles = 0
    /\ revoked = {}
    /\ now = 0

\* ------------------------------------------- the handlers after their await
\* Number.prototype.toFixed(2) of the ratio r, as text.
ToFixed2(r) ==
    LET h == (2 * 100 * r.num + r.den) \div (2 * r.den)
        frac == h % 100
    IN  ToString(h \div 100) \o "." \o
            (IF frac < 10 THEN "0" ELSE "") \o ToString(frac)

\* ImageAnalyzer.handleAnalyze: successfulResults, the rows it displays.
AnalyzeResults(items) ==
    LET idx == FulfilledIdx(items)
    IN  [k \in 1..Len(idx) |->
            [id |-> items[idx[k]].id,
             preview |-> items[idx[k]].preview,
             predictedGender |-> items[idx[k]].value.predictedGender,
             confidence |-> items[idx[k]].value.confidence,
             reasoning |-> items[idx[k]].value.reasoning]]

\* A handler that reads the batch-number field when it builds the records.
RecordsWithFieldValue(b, c, items) ==
    LET idx == FulfilledIdx(items)
    IN  [k \in 1..Len(idx) |->
            AnalysisRecord(batchNumber, "Image",
                           items[idx[k]].value.predictedGender,
                           items[idx[k]].value.confidence,
                           items[idx[k]].value.reasoning, b, idx[k])]

\* ImageAnalyzer.handleAnalyze: the records it hands to onAnalysisComplete,
\* one per fulfilled entry, in the order of settledResults.
AnalyzeRecords(b, c, items) ==
    LET idx == FulfilledIdx(items)
    IN  [k \in 1..Len(idx) |->
            AnalysisRecord(c.batchNumber, "Image",
                           items[idx[k]].value.predictedGender,
                           items[idx[k]].value.confidence,
                           items[idx[k]].value.reasoning, b, idx[k])]

\* ShapeIndexCalculator.handleCalculate: successfulResults.
CalculateResults(items) ==
    LET idx == FulfilledIdx(items)
    IN  [k \in 1..Len(idx) |->
            [id |-> items[idx[k]].id,
             predictedGender |-> items[idx[k]].value.predictedGender,
             confidence |-> items[idx[k]].value.confidence,
             reasoning |-> items[idx[k]].value.reasoning,
             inputs |-> items[idx[k]].inputs,
             shapeIndex |-> items[idx[k]].shapeIndex]]

\* A handleCalculate without its `!== 'Uncertain'` test: a record for every
\* fulfilled entry, as in ImageAnalyzer.
RecordsOfEveryResult(b, c, items) ==
    LET idx == FulfilledIdx(items)
    IN  [k \in 1..Len(idx) |->
            AnalysisRecord(c.batchNumber, "Calculator",
                           items[idx[k]].value.predictedGender,
                           items[idx[k]].value.confidence,
                           items[idx[k]].value.reasoning, b, idx[k])]

\* ShapeIndexCalculator.handleCalculate: the records it hands to
\* onAnalysisComplete: one per fulfilled entry whose predictedGender is not
\* 'Uncertain'.
CalculateRecords(b, c, items) ==
    LET idx == SelectSeq(FulfilledIdx(items),
                         LAMBDA i : items[i].value.predictedGender # "Uncertain")
    IN  [k \in 1..Len(idx) |->
            AnalysisRecord(c.batchNumber, "Calculator",
                           items[idx[k]].value.predictedGender,
                           items[idx[k]].value.confidence,
                           "Shape Index: " \o ToFixed2(items[idx[k]].shapeIndex)
                               \o ". " \o items[idx[k]].value.reasoning,
                           b, idx[k])]

\* LiveAnalyzer.handleCaptureAndAnalyze: the record of the try block.
CaptureRecords(b, c, items) ==
    LET idx == FulfilledIdx(items)
    IN  [k \in 1..Len(idx) |->
            AnalysisRecord(c.batchNumber, "Live Camera",
                           items[idx[k]].value.predictedGender,
                           items[idx[k]].value.confidence,
                           items[idx[k]].value.reasoning, b, idx[k])]

\* The records a handler appends once its calls have settled.
NewRecords(b, c, items) ==
    CASE c.kind = "Image" -> AnalyzeRecords(b, c, items)
      [] c.kind = "Calculator" -> CalculateRecords(b, c, items)
      [] c.kind = "Live Camera" -> CaptureRecords(b, c, items)

\* The list a batch handler passes to setResults.
Succeeded(c, items) ==
    CASE c.kind = "Image" -> AnalyzeResults(items)
      [] c.kind = "Calculator" -> CalculateResults(items)
      [] c.kind = "Live Camera" -> <<>>

\* The console.error("An analysis failed:", ...) calls of one forEach.
AnalysisFailedLogs(c, items) ==
    IF c.kind = "Live Camera" THEN 0 ELSE RejectedCount(items)

\* A completion that is dropped with its component: the records are stored
\* only while the component that submitted is still mounted.
FinishIfMounted(b, c, items, err, res) ==
    /\ analysisRecords' = IF c.mounted
                        THEN AppendAll(analysisRecords, NewRecords(b, c, items))
                        ELSE analysisRecords
    /\ IF ~c.mounted
       THEN UNCHANGED << loading, results, result, error >>
       ELSE /\ loading' = FALSE
            /\ IF c.kind = "Live Camera"
               THEN /\ UNCHANGED results
                    /\ IF items[1].st = "fulfilled"
                       THEN result' = items[1].value /\ error' = err
                       ELSE error' = "Failed to analyze image" /\ result' = res
               ELSE /\ results' = Succeeded(c, items)
                    /\ result' = res
                    /\ error' = err
    /\ pending' = [x \in DOMAIN pending \ {b} |-> pending[x]]
    /\ settled' = [id |-> b, kind |-> c.kind, batchNumber |-> c.batchNumber,
                   mounted |-> c.mounted, items |-> items,
                   succeeded |-> Succeeded(c, items),
                   failedLogged |-> AnalysisFailedLogs(c, items),
                   before |-> Len(analysisRecords),
                   submittedAt |-> c.submittedAt]

\* The part of a handler that runs once every call of submission b (closure c)
\* has settled with `items`: the records are appended through App's
\* handleNewRecord, which outlives the component; the setters of the component
\* act only while the instance that was submitted from is mounted.  err and res
\* are the error banner and the live result as the handler left them before
\* its await.
Finish(b, c, items, err, res) ==
    /\ analysisRecords' = AppendAll(analysisRecords, NewRecords(b, c, items))
    /\ IF ~c.mounted
       THEN UNCHANGED << loading, results, result, error >>
       ELSE /\ loading' = FALSE
            /\ IF c.kind = "Live Camera"
               THEN /\ UNCHANGED results
                    /\ IF items[1].st = "fulfilled"
                       THEN result' = items[1].value /\ error' = err
                       ELSE error' = "Failed to analyze image" /\ result' = res
               ELSE /\ results' = Succeeded(c, items)
                    /\ result' = res
                    /\ error' = err
    /\ pending' = [x \in DOMAIN pending \ {b} |-> pending[x]]
    /\ settled' = [id |-> b, kind |-> c.kind, batchNumber |-> c.batchNumber,
                   mounted |-> c.mounted, items |-> items,
                   succeeded |-> Succeeded(c, items),
                   failedLogged |-> AnalysisFailedLogs(c, items),
                   before |-> Len(analysisRecords),
                   submittedAt |-> c.submittedAt]

\* A handler that publishes as it goes: the records of the entries fulfilled so
\* far are appended each time a promise of the submission moves.
PublishEachSettle(b, c, items) ==
    IF AllSettled(items)
    THEN Finish(b, c, items, error, result)
    ELSE /\ pending' = [x \in DOMAIN pending \cup {b} |->
                            IF x = b THEN [c EXCEPT !.items = items]
                            ELSE pending[x]]
         /\ analysisRecords' = AppendAll(analysisRecords, NewRecords(b, c, items))
         /\ UNCHANGED << loading, results, result, error >>
         /\ settled' = NoSettled

\* Submission b goes on with `items` after one of its promises moved: the
\* handler resumes when Promise.allSettled resolves, and not before.
Progress(b, c, items) ==
    IF AllSettled(items)
    THEN Finish(b, c, items, error, result)
    ELSE /\ pending' = [x \in DOMAIN pending \cup {b} |->
                            IF x = b THEN [c EXCEPT !.items = items]
                            ELSE pending[x]]
         /\ UNCHANGED << analysisRecords, loading, results, result, error >>
         /\ settled' = NoSettled

\* items with entry i replaced.
WithItem(items, i, it) == [items EXCEPT ![i] = [it EXCEPT !.at = now]]

\* The FileReader of item i of image batch b ends.  On error the item's
\* promise rejects; on success predictEggGender is called, which without an
\* API key resolves at once and otherwise sends its request.
FileRead(b, i, ok) ==
    /\ b \in DOMAIN pending
    /\ i \in 1..Len(pending[b].items)
    /\ pending[b].items[i].st = "reading"
    /\ LET c == pending[b]
           it == c.items[i]
           it2 == IF ~ok THEN [it EXCEPT !.st = "rejected"]
                  ELSE IF apiKey
                  THEN [it EXCEPT !.st = "called", !.nCalls = @ + 1]
                  ELSE [it EXCEPT !.st = "fulfilled", !.value = MissingKeyResult,
                                  !.nCalls = @ + 1]
       IN  /\ Progress(b, c, WithItem(c.items, i, it2))
           /\ calls' = IF ok THEN calls + 1 ELSE calls
    /\ lastSubmit' = "none"
    /\ UNCHANGED << reportVars, now, previewVars, apiKey, activeTab, batchNumber, files, rows, errors,
                    isCameraOn, cameraAsked, nextBatch, dispatched, edits >>

\* The value a prediction call of a submission of this kind resolves to.
Predicted(kind, out) ==
    IF kind = "Calculator"
    THEN predictEggGenderFromMeasurements(out)
    ELSE predictEggGender(out)

\* A client that tries once more: when the request of an item fails for the
\* first time, the prediction function is called again for it.
RetryFailedCall(b, i, out) ==
    /\ b \in DOMAIN pending
    /\ i \in 1..Len(pending[b].items)
    /\ pending[b].items[i].st = "called"
    /\ LET c == pending[b]
           again == RequestFailed(out) /\ c.items[i].nCalls = 1
           it2 == IF again
                  THEN [c.items[i] EXCEPT !.nCalls = @ + 1]
                  ELSE [c.items[i] EXCEPT !.st = "fulfilled",
                                          !.value = Predicted(c.kind, out),
                                          !.callFailed = RequestFailed(out)]
       IN  /\ Progress(b, c, WithItem(c.items, i, it2))
           /\ calls' = IF again THEN calls + 1 ELSE calls
    /\ lastSubmit' = "none"
    /\ UNCHANGED << reportVars, now, previewVars, apiKey, activeTab, batchNumber, files, rows, errors,
                    isCameraOn, cameraAsked, nextBatch, dispatched, edits >>

\* A prediction function without its catch block: when the request fails the
\* promise of the item rejects.
PropagateFailure(b, i, out) ==
    /\ b \in DOMAIN pending
    /\ i \in 1..Len(pending[b].items)
    /\ pending[b].items[i].st = "called"
    /\ LET c == pending[b]
           it2 == IF RequestFailed(out)
                  THEN [c.items[i] EXCEPT !.st = "rejected", !.callFailed = TRUE]
                  ELSE [c.items[i] EXCEPT !.st = "fulfilled",
                                          !.value = Predicted(c.kind, out)]
       IN  Progress(b, c, WithItem(c.items, i, it2))
    /\ lastSubmit' = "none"
    /\ UNCHANGED << reportVars, now, previewVars, apiKey, activeTab, batchNumber, files, rows, errors,
                    isCameraOn, cameraAsked, nextBatch, dispatched, edits, calls >>

\* The request of item i of submission b ends with `out`.
Response(b, i, out) ==
    /\ b \in DOMAIN pending
    /\ i \in 1..Len(pending[b].items)
    /\ pending[b].items[i].st = "called"
    /\ LET c == pending[b]
           it2 == [c.items[i] EXCEPT !.st = "fulfilled",
                                     !.value = Predicted(c.kind, out),
                                     !.callFailed = RequestFailed(out)]
       IN  Progress(b, c, WithItem(c.items, i, it2))
    /\ lastSubmit' = "none"
    /\ UNCHANGED << reportVars, now, previewVars, apiKey, activeTab, batchNumber, files, rows, errors,
                    isCameraOn, cameraAsked, nextBatch, dispatched, edits, calls >>

\* ---------------------------------------------------------------------- App
\* "r" followed by the decimal numeral of k.
RowId(k) == "r" \o ToString(k)

\* crypto.randomUUID(): an id that is nowhere in use.
FreshRowId(used) ==
    RowId(CHOOSE k \in 1..(Cardinality(used) + 1) :
              /\ RowId(k) \notin used
              /\ \A j \in 1..(k - 1) : RowId(j) \in used)

\* The row ids some part of the state still refers to.
RowIdsInUse ==
    { rows[i].id : i \in 1..Len(rows) }
        \cup (IF activeTab = "calculator"
              THEN { results[i].id : i \in 1..Len(results) }
              ELSE {})
        \cup (DOMAIN errors \ {"global"})
        \cup UNION { { pending[b].items[i].id : i \in 1..Len(pending[b].items) } :
                     b \in { x \in DOMAIN pending : pending[x].kind = "Calculator" } }

\* { id: crypto.randomUUID(), length: '', width: '', weight: '' }
EmptyRow(id) == [id |-> id, length |-> <<>>, width |-> <<>>, weight |-> <<>>]

\* The closures in flight, none of them mounted any more.
Orphaned(p) == [b \in DOMAIN p |-> [p[b] EXCEPT !.mounted = FALSE]]

\* A click on the tab t of the sidebar: setActiveTab(tab.id).  renderContent
\* then renders another component: the mounted one is unmounted (its state is
\* lost, its setters act no more) and a fresh one is mounted.
setActiveTab(t) ==
    /\ t \in Tabs \ {activeTab}
    /\ activeTab' = t
    /\ revoked' = Cleanup(files)
    /\ batchNumber' = <<>>
    /\ loading' = FALSE
    /\ results' = <<>>
    /\ error' = NoError
    /\ files' = <<>>
    /\ rows' = IF t = "calculator"
               THEN << EmptyRow(FreshRowId(RowIdsInUse)) >>
               ELSE <<>>
    /\ errors' = NoErrors
    /\ isCameraOn' = FALSE
    /\ cameraAsked' = FALSE
    /\ result' = NoResult
    /\ pending' = Orphaned(pending)
    /\ lastSubmit' = "none"
    /\ UNCHANGED << reportVars, now, handles, apiKey, analysisRecords, nextBatch, dispatched, edits, calls >>
    /\ settled' = NoSettled

\* onChange of the batch-number field of the mounted component.  The field of
\* LiveAnalyzer is disabled while the camera is on.
setBatchNumber(v) ==
    /\ v \in BatchInputs \ {batchNumber}
    /\ activeTab = "live" => ~isCameraOn
    /\ batchNumber' = v
    /\ edits < MaxEdits
    /\ edits' = edits + 1
    /\ lastSubmit' = "none"
    /\ UNCHANGED << reportVars, now, previewVars, apiKey, activeTab, analysisRecords, loading, results, error,
                    files, rows, errors, isCameraOn, cameraAsked, result, pending,
                    nextBatch, dispatched, calls >>
    /\ settled' = NoSettled

\* ------------------------------------------------------------ ImageAnalyzer
\* preview is the URL made for the file by URL.createObjectURL.
FilePreview(id, preview) == [id |-> id, preview |-> preview]

\* The non-empty lists of at most n picked files.
Picks(n) ==
    UNION { [1..k -> FileIds] : k \in 1..n }

handleImageChange(picked) ==
    /\ activeTab = "image"
    /\ Len(files) + Len(picked) <= MaxFiles
    /\ files' = files \o [k \in 1..Len(picked) |->
                               FilePreview(picked[k], handles + k)]
    /\ handles' = handles + Len(picked)
    /\ revoked' = Cleanup(files)
    /\ results' = <<>>
    /\ error' = NoError
    /\ edits < MaxEdits
    /\ edits' = edits + 1
    /\ lastSubmit' = "none"
    /\ UNCHANGED << reportVars, now, apiKey, activeTab, analysisRecords, batchNumber, loading, rows,
                    errors, isCameraOn, cameraAsked, result, pending, nextBatch,
                    dispatched, calls >>
    /\ settled' = NoSettled

\* The X button of a listed file.
removeFile(id) ==
    /\ activeTab = "image"
    /\ \E k \in 1..Len(files) : files[k].id = id
    /\ files' = SelectSeq(files, LAMBDA f : f.id # id)
    /\ revoked' = Cleanup(files)
    /\ edits < MaxEdits
    /\ edits' = edits + 1
    /\ lastSubmit' = "none"
    /\ UNCHANGED << reportVars, now, handles, apiKey, activeTab, analysisRecords, batchNumber, loading,
                    results, error, rows, errors, isCameraOn, cameraAsked, result,
                    pending, nextBatch, dispatched, calls >>
    /\ settled' = NoSettled

\* "Clear All", rendered while files.length > 0.
ImageAnalyzer_clearBatch ==
    /\ activeTab = "image"
    /\ Len(files) > 0
    /\ files' = <<>>
    /\ revoked' = Cleanup(files)
    /\ results' = <<>>
    /\ error' = NoError
    /\ edits < MaxEdits
    /\ edits' = edits + 1
    /\ lastSubmit' = "none"
    /\ UNCHANGED << reportVars, now, handles, apiKey, activeTab, analysisRecords, batchNumber, loading, rows,
                    errors, isCameraOn, cameraAsked, result, pending, nextBatch,
                    dispatched, calls >>
    /\ settled' = NoSettled

\* The promises handleAnalyze builds with files.map: each starts a FileReader.
AnalysisPromises(fs) ==
    [k \in 1..Len(fs) |->
        [Item(fs[k].id, "reading", NoResult, NoInputs, NoShapeIndex)
            EXCEPT !.preview = fs[k].preview]]

\* `disabled` of the "Predict for Batch" button.
AnalyzeDisabled ==
    Len(files) = 0 \/ ~Truthy(Trim(batchNumber)) \/ loading

\* ImageAnalyzer.handleAnalyze, up to its await.
handleAnalyze ==
    IF Len(files) = 0 \/ ~Truthy(Trim(batchNumber))
    THEN /\ error' = "Please upload at least one image and provide a batch number."
         /\ lastSubmit' = "invalid"
         /\ UNCHANGED << analysisRecords, loading, results, result, pending,
                         nextBatch, dispatched >>
         /\ settled' = NoSettled
    ELSE /\ dispatched + Len(files) <= MaxItems
         /\ dispatched' = dispatched + Len(files)
         /\ nextBatch' = nextBatch + 1
         /\ lastSubmit' = "dispatched"
         /\ LET b == nextBatch + 1
                c == Closure("Image", batchNumber, AnalysisPromises(files))
            IN  IF AllSettled(c.items)
                THEN Finish(b, c, c.items, NoError, result)
                ELSE /\ loading' = TRUE
                     /\ error' = NoError
                     /\ results' = <<>>
                     /\ pending' = [x \in DOMAIN pending \cup {b} |->
                                       IF x = b THEN c ELSE pending[x]]
                     /\ UNCHANGED << analysisRecords, result >>
                     /\ settled' = NoSettled

\* An ImageAnalyzer whose button and handler look at the batch number only,
\* not at the file list.
ClickAnalyzeAnyFiles ==
    /\ activeTab = "image"
    /\ IF ~Truthy(Trim(batchNumber)) \/ loading
       THEN /\ lastSubmit' = "disabled"
            /\ UNCHANGED << analysisRecords, loading, results, result, error,
                            pending, nextBatch, dispatched >>
            /\ settled' = NoSettled
       ELSE /\ dispatched + Len(files) <= MaxItems
            /\ dispatched' = dispatched + Len(files)
            /\ nextBatch' = nextBatch + 1
            /\ lastSubmit' = "dispatched"
            /\ LET b == nextBatch + 1
                   c == Closure("Image", batchNumber, AnalysisPromises(files))
               IN  IF AllSettled(c.items)
                   THEN Finish(b, c, c.items, NoError, result)
                   ELSE /\ loading' = TRUE
                        /\ error' = NoError
                        /\ results' = <<>>
                        /\ pending' = [x \in DOMAIN pending \cup {b} |->
                                          IF x = b THEN c ELSE pending[x]]
                        /\ UNCHANGED << analysisRecords, result >>
                        /\ settled' = NoSettled
    /\ UNCHANGED << reportVars, now, previewVars, apiKey, activeTab, edits, batchNumber, files, rows, errors,
                    isCameraOn, cameraAsked, calls >>

\* A click on "Predict for Batch".
ClickAnalyze ==
    /\ activeTab = "image"
    /\ IF AnalyzeDisabled
       THEN /\ lastSubmit' = "disabled"
            /\ UNCHANGED << analysisRecords, loading, results, result, error,
                            pending, nextBatch, dispatched >>
            /\ settled' = NoSettled
       ELSE handleAnalyze
    /\ UNCHANGED << reportVars, now, previewVars, apiKey, activeTab, edits, batchNumber, files, rows, errors,
                    isCameraOn, cameraAsked, calls >>

\* ----------------------------------------------------- ShapeIndexCalculator
handleAddRow ==
    /\ activeTab = "calculator"
    /\ Len(rows) < MaxRows
    /\ rows' = Append(rows, EmptyRow(FreshRowId(RowIdsInUse)))
    /\ edits < MaxEdits
    /\ edits' = edits + 1
    /\ lastSubmit' = "none"
    /\ UNCHANGED << reportVars, now, previewVars, apiKey, activeTab, analysisRecords, batchNumber, loading,
                    results, error, files, errors, isCameraOn, cameraAsked, result,
                    pending, nextBatch, dispatched, calls >>
    /\ settled' = NoSettled

\* A trash button that is rendered for the only row as well.
RemoveAnyRow(id) ==
    /\ activeTab = "calculator"
    /\ \E k \in 1..Len(rows) : rows[k].id = id
    /\ rows' = SelectSeq(rows, LAMBDA row : row.id # id)
    /\ errors' = [k \in DOMAIN errors \ {id} |-> errors[k]]
    /\ edits < MaxEdits
    /\ edits' = edits + 1
    /\ lastSubmit' = "none"
    /\ UNCHANGED << reportVars, now, previewVars, apiKey, activeTab, analysisRecords, batchNumber, loading,
                    results, error, files, isCameraOn, cameraAsked, result, pending,
                    nextBatch, dispatched, calls >>
    /\ settled' = NoSettled

\* The trash button of a row, rendered while rows.length > 1.
handleRemoveRow(id) ==
    /\ activeTab = "calculator"
    /\ Len(rows) > 1
    /\ \E k \in 1..Len(rows) : rows[k].id = id
    /\ rows' = SelectSeq(rows, LAMBDA row : row.id # id)
    /\ errors' = [k \in DOMAIN errors \ {id} |-> errors[k]]
    /\ edits < MaxEdits
    /\ edits' = edits + 1
    /\ lastSubmit' = "none"
    /\ UNCHANGED << reportVars, now, previewVars, apiKey, activeTab, analysisRecords, batchNumber, loading,
                    results, error, files, isCameraOn, cameraAsked, result, pending,
                    nextBatch, dispatched, calls >>
    /\ settled' = NoSettled

RowFields == { "length", "width", "weight" }

\* onChange of one of the three inputs of a row.
handleInputChange(id, field, value) ==
    /\ activeTab = "calculator"
    /\ \E k \in 1..Len(rows) : rows[k].id = id /\ rows[k][field] # value
    /\ rows' = [k \in 1..Len(rows) |->
                   IF rows[k].id = id THEN [rows[k] EXCEPT ![field] = value]
                   ELSE rows[k]]
    /\ edits < MaxEdits
    /\ edits' = edits + 1
    /\ lastSubmit' = "none"
    /\ UNCHANGED << reportVars, now, previewVars, apiKey, activeTab, analysisRecords, batchNumber, loading,
                    results, error, files, errors, isCameraOn, cameraAsked, result,
                    pending, nextBatch, dispatched, calls >>
    /\ settled' = NoSettled

\* "Clear", rendered while rows.length > 0.
ShapeIndexCalculator_clearBatch ==
    /\ activeTab = "calculator"
    /\ Len(rows) > 0
    /\ rows' = << EmptyRow(FreshRowId(RowIdsInUse)) >>
    /\ results' = <<>>
    /\ errors' = NoErrors
    /\ edits < MaxEdits
    /\ edits' = edits + 1
    /\ lastSubmit' = "none"
    /\ UNCHANGED << reportVars, now, previewVars, apiKey, activeTab, analysisRecords, batchNumber, loading, error,
                    files, isCameraOn, cameraAsked, result, pending, nextBatch,
                    dispatched, calls >>
    /\ settled' = NoSettled

\* A validateRows that forgets to compare width and length.
RowErrorUnordered(row) ==
    LET lengthNum == ParseFloat(row.length)
        widthNum == ParseFloat(row.width)
        weightNum == ParseFloat(row.weight)
    IN  IF ~Truthy(row.length) \/ ~Truthy(row.width) \/ ~Truthy(row.weight)
        THEN "All fields are required."
        ELSE IF \/ lengthNum.nan \/ widthNum.nan \/ weightNum.nan
                \/ lengthNum.v <= 0 \/ widthNum.v <= 0 \/ weightNum.v <= 0
        THEN "Please enter valid, positive numbers."
        ELSE ""

\* The message validateRows stores for a row, "" when it stores none.
RowError(row) ==
    LET lengthNum == ParseFloat(row.length)
        widthNum == ParseFloat(row.width)
        weightNum == ParseFloat(row.weight)
    IN  IF ~Truthy(row.length) \/ ~Truthy(row.width) \/ ~Truthy(row.weight)
        THEN "All fields are required."
        ELSE IF \/ lengthNum.nan \/ widthNum.nan \/ weightNum.nan
                \/ lengthNum.v <= 0 \/ widthNum.v <= 0 \/ weightNum.v <= 0
        THEN "Please enter valid, positive numbers."
        ELSE IF widthNum.v >= lengthNum.v
        THEN "Length must be greater than width."
        ELSE ""

\* A validateRows that looks at the rows only, not at the batch number.
validateRowsOnly(bn, rws) ==
    LET bad == { k \in 1..Len(rws) : RowError(rws[k]) # "" }
        keys == { rws[k].id : k \in bad }
        last(id) == CHOOSE k \in bad :
                        rws[k].id = id /\ \A j \in bad : rws[j].id = id => j <= k
    IN  [newErrors |-> [id \in keys |-> RowError(rws[last(id)])],
         isValid |-> bad = {}]

\* A validateRows that reports the first invalid row only.
validateRowsFirstError(bn, rws) ==
    LET bad == { k \in 1..Len(rws) : RowError(rws[k]) # "" }
        noBatch == ~Truthy(Trim(bn))
        first == { k \in bad : \A j \in bad : k <= j }
        keys == { rws[k].id : k \in first } \cup (IF noBatch THEN {"global"} ELSE {})
    IN  [newErrors |-> [id \in keys |->
                           IF id = "global" THEN "Batch Number is required."
                           ELSE RowError(rws[CHOOSE k \in first : TRUE])],
         isValid |-> ~noBatch /\ bad = {}]

\* ShapeIndexCalculator.validateRows: the map it passes to setErrors and the
\* flag it returns.
validateRows(bn, rws) ==
    LET bad == { k \in 1..Len(rws) : RowError(rws[k]) # "" }
        noBatch == ~Truthy(Trim(bn))
        keys == { rws[k].id : k \in bad } \cup (IF noBatch THEN {"global"} ELSE {})
        \* forEach assigns in row order: the last row of an id decides its entry
        last(id) == CHOOSE k \in bad :
                        rws[k].id = id /\ \A j \in bad : rws[j].id = id => j <= k
    IN  [newErrors |-> [id \in keys |->
                           IF id = "global" THEN "Batch Number is required."
                           ELSE RowError(rws[last(id)])],
         isValid |-> ~noBatch /\ bad = {}]

\* A handler that keeps the shape index as a whole number of percent.
RoundedIndexPromises(rws) ==
    [k \in 1..Len(rws) |->
        LET lengthNum == ParseFloat(rws[k].length).v
            widthNum == ParseFloat(rws[k].width).v
            weightNum == ParseFloat(rws[k].weight).v
        IN  Item(rws[k].id,
                 IF apiKey THEN "called" ELSE "fulfilled",
                 IF apiKey THEN NoResult ELSE MissingKeyResult,
                 [length |-> lengthNum, width |-> widthNum, weight |-> weightNum],
                 Ratio((2 * widthNum * 100 + lengthNum) \div (2 * lengthNum), 1))]

\* The promises handleCalculate builds with rows.map: each one has called
\* predictEggGenderFromMeasurements before the map returns.
CalculatePromises(rws) ==
    [k \in 1..Len(rws) |->
        LET lengthNum == ParseFloat(rws[k].length).v
            widthNum == ParseFloat(rws[k].width).v
            weightNum == ParseFloat(rws[k].weight).v
        IN  Item(rws[k].id,
                 IF apiKey THEN "called" ELSE "fulfilled",
                 IF apiKey THEN NoResult ELSE MissingKeyResult,
                 [length |-> lengthNum, width |-> widthNum, weight |-> weightNum],
                 Ratio(widthNum * 100, lengthNum))]

\* `disabled` of the "Calculate Batch" button.
CalculateDisabled == loading \/ Len(rows) = 0

\* ShapeIndexCalculator.handleCalculate, up to its await.
handleCalculate ==
    LET v == validateRows(batchNumber, rows)
    IN  /\ errors' = v.newErrors
        /\ IF ~v.isValid
           THEN /\ lastSubmit' = "invalid"
                /\ UNCHANGED << analysisRecords, loading, results, result, error,
                                pending, nextBatch, dispatched, calls >>
                /\ settled' = NoSettled
           ELSE /\ dispatched + Len(rows) <= MaxItems
                /\ dispatched' = dispatched + Len(rows)
                /\ nextBatch' = nextBatch + 1
                /\ lastSubmit' = "dispatched"
                /\ calls' = calls + Len(rows)
                /\ LET b == nextBatch + 1
                       c == Closure("Calculator", batchNumber,
                                    CalculatePromises(rows))
                   IN  IF AllSettled(c.items)
                       THEN Finish(b, c, c.items, error, result)
                       ELSE /\ loading' = TRUE
                            /\ results' = <<>>
                            /\ pending' = [x \in DOMAIN pending \cup {b} |->
                                              IF x = b THEN c ELSE pending[x]]
                            /\ UNCHANGED << analysisRecords, result, error >>
                            /\ settled' = NoSettled

\* A click on "Calculate Batch".
ClickCalculate ==
    /\ activeTab = "calculator"
    /\ IF CalculateDisabled
       THEN /\ lastSubmit' = "disabled"
            /\ UNCHANGED << analysisRecords, loading, results, result, error,
                            errors, pending, nextBatch, dispatched, calls >>
            /\ settled' = NoSettled
       ELSE handleCalculate
    /\ UNCHANGED << reportVars, now, previewVars, apiKey, activeTab, edits, batchNumber, files, rows, isCameraOn,
                    cameraAsked >>

\* ------------------------------------------------------------- LiveAnalyzer
\* A click on "Start Camera", rendered while the camera is off: getUserMedia
\* is asked and answers later.
startCamera ==
    /\ activeTab = "live"
    /\ ~isCameraOn
    /\ cameraAsked' = TRUE
    /\ lastSubmit' = "none"
    /\ UNCHANGED << reportVars, now, previewVars, apiKey, activeTab, analysisRecords, batchNumber, loading,
                    results, error, files, rows, errors, isCameraOn, result,
                    pending, nextBatch, dispatched, edits, calls >>
    /\ settled' = NoSettled

\* getUserMedia answers the mounted LiveAnalyzer: a stream, or an exception.
CameraAnswer(granted) ==
    /\ activeTab = "live"
    /\ cameraAsked
    /\ cameraAsked' = FALSE
    /\ IF granted
       THEN isCameraOn' = TRUE /\ error' = NoError /\ result' = NoResult
       ELSE /\ isCameraOn' = FALSE
            /\ error' = "Could not access camera. Please check permissions."
            /\ UNCHANGED result
    /\ lastSubmit' = "none"
    /\ UNCHANGED << reportVars, now, previewVars, apiKey, activeTab, analysisRecords, batchNumber, loading,
                    results, files, rows, errors, pending, nextBatch, dispatched,
                    edits, calls >>
    /\ settled' = NoSettled

\* The stop button, rendered while the camera is on.
stopCamera ==
    /\ activeTab = "live"
    /\ isCameraOn
    /\ isCameraOn' = FALSE
    /\ lastSubmit' = "none"
    /\ UNCHANGED << reportVars, now, previewVars, apiKey, activeTab, analysisRecords, batchNumber, loading,
                    results, error, files, rows, errors, cameraAsked, result,
                    pending, nextBatch, dispatched, edits, calls >>
    /\ settled' = NoSettled

\* `disabled` of the "Capture & Predict" button.
CaptureDisabled == loading \/ ~Truthy(Trim(batchNumber))

\* The one promise of a capture: predictEggGender has been called.
CapturePromises ==
    << Item("frame",
            IF apiKey THEN "called" ELSE "fulfilled",
            IF apiKey THEN NoResult ELSE MissingKeyResult,
            NoInputs, NoShapeIndex) >>

\* LiveAnalyzer.handleCaptureAndAnalyze, up to its await.  The refs of a
\* mounted component are set.
handleCaptureAndAnalyze ==
    IF ~Truthy(Trim(batchNumber))
    THEN /\ lastSubmit' = "invalid"
         /\ UNCHANGED << analysisRecords, loading, results, result, error, pending,
                         nextBatch, dispatched, calls >>
         /\ settled' = NoSettled
    ELSE /\ dispatched + 1 <= MaxItems
         /\ dispatched' = dispatched + 1
         /\ nextBatch' = nextBatch + 1
         /\ lastSubmit' = "dispatched"
         /\ calls' = calls + 1
         /\ LET b == nextBatch + 1
                c == Closure("Live Camera", batchNumber, CapturePromises)
            IN  IF AllSettled(c.items)
                THEN Finish(b, c, c.items, NoError, NoResult)
                ELSE /\ loading' = TRUE
                     /\ error' = NoError
                     /\ result' = NoResult
                     /\ pending' = [x \in DOMAIN pending \cup {b} |->
                                       IF x = b THEN c ELSE pending[x]]
                     /\ UNCHANGED << analysisRecords, results >>
                     /\ settled' = NoSettled

\* A click on "Capture & Predict", rendered while the camera is on.
ClickCapture ==
    /\ activeTab = "live"
    /\ isCameraOn
    /\ IF CaptureDisabled
       THEN /\ lastSubmit' = "disabled"
            /\ UNCHANGED << analysisRecords, loading, results, result, error,
                            pending, nextBatch, dispatched, calls >>
            /\ settled' = NoSettled
       ELSE handleCaptureAndAnalyze
    /\ UNCHANGED << reportVars, now, previewVars, apiKey, activeTab, edits, batchNumber, files, rows, errors,
                    isCameraOn, cameraAsked >>

\* ---------------------------------------------------------- the application
\* The file lists the picker and the X buttons can leave in ImageAnalyzer.
FileLists ==
    { <<>> } \cup { [k \in 1..Len(p) |-> FilePreview(p[k], k)] : p \in Picks(MaxFiles) }

\* The row lists typing can leave in ShapeIndexCalculator when every row holds
\* one of the triples << length, width, weight >> of `triples`.
RowLists(triples) ==
    UNION { { [k \in 1..n |-> [id |-> RowId(k), length |-> f[k][1],
                               width |-> f[k][2], weight |-> f[k][3]]] :
              f \in [1..n -> triples] } : n \in 1..MaxRows }

\* The rows of a session: an untouched row, a complete row, and rows with a
\* missing weight, a length that is no number, a width of zero, a width above
\* and a width equal to the length.
SessionRows ==
    { << <<>>, <<>>, <<>> >>,
      << <<"-">>, <<"4">>, <<"5">> >>,
      << <<"6">>, <<"4">>, <<"5">> >>,
      << <<"5">>, <<"4">>, <<>> >>,
      << <<"5">>, <<"0">>, <<"6">> >>,
      << <<"4">>, <<"5">>, <<"6">> >>,
      << <<"5">>, <<"5">>, <<"6">> >> }

\* The states the user reaches from Init by choosing a tab and filling the
\* inputs of its component, before anything is submitted.
Prepared(triples) ==
    /\ apiKey \in BOOLEAN
    /\ activeTab \in Tabs
    /\ analysisRecords = <<>>
    /\ batchNumber \in BatchInputs
    /\ loading = FALSE
    /\ results = <<>>
    /\ error = NoError
    /\ files \in (IF activeTab = "image" THEN FileLists ELSE { <<>> })
    /\ rows \in (IF activeTab = "calculator" THEN RowLists(triples) ELSE { <<>> })
    /\ errors = NoErrors
    /\ isCameraOn \in (IF activeTab = "live" THEN BOOLEAN ELSE { FALSE })
    /\ cameraAsked = FALSE
    /\ result = NoResult
    /\ pending = [b \in {} |-> NoSettled]
    /\ nextBatch = 0
    /\ dispatched = 0
    /\ edits = 0
    /\ calls = 0
    /\ settled = NoSettled
    /\ lastSubmit = "none"
    /\ selectedBatch = All
    /\ pickedOption = AllBatchesOption
    /\ exported = NoExport
    /\ handles = Len(files)
    /\ revoked = {}
    /\ now = 0

\* Time passes between two browser tasks.
Tick ==
    /\ now < MaxTime
    /\ now' = now + 1
    /\ lastSubmit' = "none"
    /\ settled' = NoSettled
    /\ UNCHANGED << reportVars, previewVars, apiKey, activeTab, analysisRecords,
                    batchNumber, loading, results, error, files, rows, errors,
                    isCameraOn, cameraAsked, result, pending, nextBatch,
                    dispatched, edits, calls >>

Next ==
    \/ \E t \in Tabs : setActiveTab(t)
    \/ \E v \in BatchInputs : setBatchNumber(v)
    \/ \E picked \in Picks(MaxFiles) : handleImageChange(picked)
    \/ \E id \in FileIds : removeFile(id)
    \/ ImageAnalyzer_clearBatch
    \/ ClickAnalyze
    \/ handleAddRow
    \/ \E k \in 1..Len(rows) : handleRemoveRow(rows[k].id)
    \/ \E k \in 1..Len(rows), f \in RowFields, v \in FieldInputs :
           handleInputChange(rows[k].id, f, v)
    \/ ShapeIndexCalculator_clearBatch
    \/ ClickCalculate
    \/ startCamera
    \/ \E granted \in BOOLEAN : CameraAnswer(granted)
    \/ stopCamera
    \/ ClickCapture
    \/ \E b \in DOMAIN pending, ok \in BOOLEAN :
           \E i \in 1..Len(pending[b].items) : FileRead(b, i, ok)
    \/ \E b \in DOMAIN pending, out \in ServiceOutcomes :
           \E i \in 1..Len(pending[b].items) : Response(b, i, out)

Spec == Prepared(SessionRows) /\ [][Next]_vars

\* An outstanding FileReader or request ends.
Settle ==
    \E b \in DOMAIN pending :
        \E i \in 1..Len(pending[b].items) :
            \/ \E ok \in BOOLEAN : FileRead(b, i, ok)
            \/ \E out \in ServiceOutcomes : Response(b, i, out)

\* The sessions in which no FileReader and no request stays outstanding for
\* ever: the browser delivers the load or error event of every read, and every
\* request ends with a response or an error.
FairSpec == Spec /\ WF_vars(Settle)

\* How a request ends in a timed session: a Male reply, an Uncertain reply or
\* a thrown error.
TimedOutcomes ==
    { [kind |-> "reply", body |-> Result("Male", "High", "model")],
      [kind |-> "reply", body |-> Result("Uncertain", "Low", "model")],
      [kind |-> "throw", body |-> NoResult] }

\* The timed sessions: on the inputs of the prepared state the user submits,
\* switches tab, types a batch number and uses the camera, reads and requests
\* end, and the clock advances.  The edits of the files and of the rows read
\* no clock and touch no record: they are those of Spec.
TimedNext ==
    \/ \E t \in Tabs : setActiveTab(t)
    \/ \E v \in BatchInputs : setBatchNumber(v)
    \/ ClickAnalyze
    \/ ClickCalculate
    \/ startCamera
    \/ \E granted \in BOOLEAN : CameraAnswer(granted)
    \/ stopCamera
    \/ ClickCapture
    \/ \E b \in DOMAIN pending, ok \in BOOLEAN :
           \E i \in 1..Len(pending[b].items) : FileRead(b, i, ok)
    \/ \E b \in DOMAIN pending, out \in TimedOutcomes :
           \E i \in 1..Len(pending[b].items) : Response(b, i, out)
    \/ Tick

\* The rows of a timed session: an untouched row and a complete row.
TimedRows ==
    { << <<>>, <<>>, <<>> >>,
      << <<"6">>, <<"4">>, <<"5">> >> }

TimedSpec == Prepared(TimedRows) /\ [][TimedNext]_vars

\* ------------------------------------------------------------ AnalysisChart
\* The distinct batch numbers of the records (the code sorts them for display).
uniqueBatches(records) == { records[i].batchNumber : i \in 1..Len(records) }

filteredRecords(records, selected) ==
    IF selected = All THEN records
    ELSE SelectSeq(records, LAMBDA r : r.batchNumber = selected)

\* A reducer that takes every record that is not Male for Female.
CountMaleOrElseFemale(acc, record) ==
    IF record.gender = "Male" THEN [acc EXCEPT !.Male = @ + 1]
    ELSE [acc EXCEPT !.Female = @ + 1]

\* The reducer of genderCounts.
CountGender(acc, record) ==
    IF record.gender = "Male" THEN [acc EXCEPT !.Male = @ + 1]
    ELSE IF record.gender = "Female" THEN [acc EXCEPT !.Female = @ + 1]
    ELSE acc

\* filtered.reduce(CountGender, acc)
RECURSIVE Reduce(_, _)
Reduce(acc, filtered) ==
    IF filtered = <<>> THEN acc
    ELSE Reduce(CountGender(acc, Head(filtered)), Tail(filtered))

genderCounts(filtered) == Reduce([Male |-> 0, Female |-> 0], filtered)

\* A percentage computed without looking at the total.
UnguardedPercentage(count, total) == Ratio(count * 100, total)

\* total > 0 ? (count / total) * 100 : 0
Percentage(count, total) ==
    IF total > 0 THEN Ratio(count * 100, total) ELSE Ratio(0, 1)

\* What one render of AnalysisChart computes from its props and its state.
Summary(records, selected) ==
    LET counts == genderCounts(filteredRecords(records, selected))
        total == counts.Male + counts.Female
    IN  [maleCount |-> counts.Male, femaleCount |-> counts.Female,
         total |-> total,
         malePercentage |-> Percentage(counts.Male, total),
         femalePercentage |-> Percentage(counts.Female, total)]

\* The options of the rendered <select>.
FilterOptions(records) ==
    { AllBatchesOption } \cup { BatchOption(b) : b \in uniqueBatches(records) }

\* Every variable but the store, the chart's and the export's.
analyzerVars ==
    << apiKey, activeTab, batchNumber, loading, results, error, files, rows,
       errors, isCameraOn, cameraAsked, result, pending, nextBatch, dispatched,
       edits, calls, settled, lastSubmit, handles, revoked, now >>

\* onChange of the batch filter: the user picks another option.  The chart is
\* rendered while the store is not empty.
setSelectedBatch(option) ==
    /\ Len(analysisRecords) > 0
    /\ option \in FilterOptions(analysisRecords) \ { pickedOption }
    /\ selectedBatch' = option.value
    /\ pickedOption' = option
    /\ UNCHANGED << analyzerVars, analysisRecords, exported >>

\* ---------------------------------------------------------------- CSV export
\* value.replace(/"/g, '""')
RECURSIVE ReplaceQuotes(_)
ReplaceQuotes(value) ==
    IF value = <<>> THEN <<>>
    ELSE (IF Head(value) = "\"" THEN << "\"", "\"" >> ELSE << Head(value) >>)
             \o ReplaceQuotes(Tail(value))

\* A cell that is quoted but not escaped.
QuoteOnly(value) == << "\"" >> \o value \o << "\"" >>

formatCsvCell(value) == << "\"" >> \o ReplaceQuotes(value) \o << "\"" >>

\* parts.join(sep)
RECURSIVE Join(_, _)
Join(parts, sep) ==
    IF parts = <<>> THEN <<>>
    ELSE IF Len(parts) = 1 THEN parts[1]
    ELSE parts[1] \o sep \o Join(Tail(parts), sep)

headers ==
    << Chars("Timestamp"), Chars("Batch Number"), Chars("Analysis Type"),
       Chars("Predicted Gender"), Chars("Confidence"), Chars("AI Reasoning") >>

\* The cells of the row of record r.  batchNumber is kept as characters, the
\* other fields as string literals.
CsvCells(r) ==
    << formatCsvCell(Chars(r.timestamp)), formatCsvCell(r.batchNumber),
       formatCsvCell(Chars(r.analysisType)), formatCsvCell(Chars(r.gender)),
       formatCsvCell(Chars(r.confidence)), formatCsvCell(Chars(r.reasoning)) >>

csvContent(records) ==
    Join(<< Join(headers, << "," >>) >>
             \o [i \in 1..Len(records) |-> Join(CsvCells(records[i]), << "," >>)],
         << "\n" >>)

\* An export without the test of the first line of downloadCSV.
ExportAlways ==
    /\ exported' = [of |-> analysisRecords,
                    csvContent |-> csvContent(analysisRecords)]
    /\ UNCHANGED << analyzerVars, analysisRecords, selectedBatch, pickedOption >>

\* "Export CSV", rendered while the store is not empty: the file is built from
\* the store as it is.
downloadCSV ==
    /\ Len(analysisRecords) > 0
    /\ exported' = [of |-> analysisRecords,
                    csvContent |-> csvContent(analysisRecords)]
    /\ UNCHANGED << analyzerVars, analysisRecords, selectedBatch, pickedOption >>

\* -------------------------------------------------------- the reporting side
\* Records a session can hold, with the timestamp the export reads: batch
\* numbers as typed (one of them the word "all"), genders and confidences as
\* the service words them, and reasonings with a quote, a comma and a line
\* break in them.
Stamped(timestamp, record) == [timestamp |-> timestamp] @@ record

SampleRecords ==
    { Stamped("2026-01-05T10:00:00.000Z",
              AnalysisRecord(Chars("A"), "Image", "Male", "High",
                             "pointed tip", 0, 0)),
      Stamped("2026-01-05T10:00:01.000Z",
              AnalysisRecord(Chars("A"), "Calculator", "Female", "Medium",
                             "index \"low\"", 0, 0)),
      Stamped("2026-01-05T10:00:02.000Z",
              AnalysisRecord(Chars("B"), "Live Camera", "Uncertain", "Low",
                             "blurry, dark", 0, 0)),
      Stamped("2026-01-05T10:00:03.000Z",
              AnalysisRecord(Chars("all"), "Image", "Female", "High",
                             "round\nblunt", 0, 0)),
      Stamped("2026-01-05T10:00:04.000Z",
              AnalysisRecord(Chars("B"), "Image", "Male", "Low",
                             "narrow", 0, 0)) }

\* A submission hands one record to App (onAnalysisComplete).
onAnalysisComplete(record) ==
    /\ Len(analysisRecords) < MaxRecords
    /\ analysisRecords' = handleNewRecord(analysisRecords, record)
    /\ UNCHANGED << analyzerVars, reportVars >>

ReportNext ==
    \/ \E record \in SampleRecords : onAnalysisComplete(record)
    \/ \E option \in FilterOptions(analysisRecords) : setSelectedBatch(option)
    \/ downloadCSV

\* The chart and the export over a store that fills record by record; the
\* analyzers that produce the records are those of Spec and stay as constructed.
ReportSpec == Init /\ [][ReportNext]_vars

\* ------------------------------------------------------------------ claims
\* The step just taken completed a submission; a batch (image or measurement
\* variant).
Completed == settled.id # 0

BatchCompleted == Completed /\ settled.kind \in { "Image", "Calculator" }

\* The items of the submission just completed that failed: the FileReader of
\* the image failed, or the request of the prediction call did (transport
\* error, service error, unparseable response).
FailedItems ==
    { i \in 1..Len(settled.items) :
        settled.items[i].st = "rejected" \/ settled.items[i].callFailed }

\* The items of the submission just completed that succeeded.
SucceededItems == (1..Len(settled.items)) \ FailedItems

\* C1: a batch of N items of which k failed completes all the same, and the
\* list it displays holds exactly the N-k items that succeeded, each with the
\* result of its own call: a failed item neither aborts the batch nor removes
\* the result of another item.
C1_PartialFailureIsolation ==
    BatchCompleted =>
        /\ settled.id \notin DOMAIN pending
        /\ Len(settled.succeeded) = Len(settled.items) - Cardinality(FailedItems)
        /\ \A i \in SucceededItems :
               \E j \in 1..Len(settled.succeeded) :
                   /\ settled.succeeded[j].id = settled.items[i].id
                   /\ settled.succeeded[j].predictedGender
                          = settled.items[i].value.predictedGender
                   /\ settled.succeeded[j].reasoning = settled.items[i].value.reasoning
        /\ settled.mounted => results = settled.succeeded /\ ~loading

\* C2: when k of the N items of a batch fail, the batch reports k failures:
\* the handler's "An analysis failed" reports number k and, with the N-k
\* displayed successes, account for every item.
C2_FailureCount ==
    BatchCompleted =>
        /\ settled.failedLogged = Cardinality(FailedItems)
        /\ settled.failedLogged + Len(settled.succeeded) = Len(settled.items)

\* The items of the submission just completed that the store must hold: the
\* succeeded ones, less the Uncertain results of the measurement variant.
CountedItems ==
    { i \in SucceededItems :
        ~(settled.kind = "Calculator"
            /\ settled.items[i].value.predictedGender = "Uncertain") }

\* The places of the store that hold a record of item i of submission b.
RecordsOf(b, i) ==
    { n \in 1..Len(analysisRecords) :
        analysisRecords[n].batch = b /\ analysisRecords[n].item = i }

\* C3: a completed batch grows the store by exactly the number of its
\* successful, non-excluded items: one record for each of them, none for a
\* failed item, none for an Uncertain measurement result; and no item of any
\* batch ever has two records.
C3_StoreGrowth ==
    /\ BatchCompleted =>
          /\ Len(analysisRecords) = settled.before + Cardinality(CountedItems)
          /\ \A i \in 1..Len(settled.items) :
                 /\ RecordsOf(settled.id, i) \subseteq
                        (settled.before + 1)..Len(analysisRecords)
                 /\ Cardinality(RecordsOf(settled.id, i))
                        = IF i \in CountedItems THEN 1 ELSE 0
    /\ \A m, n \in 1..Len(analysisRecords) :
          /\ analysisRecords[m].batch = analysisRecords[n].batch
          /\ analysisRecords[m].item = analysisRecords[n].item
          => m = n

\* The gender the prediction call of item i of the submission just completed
\* resolved to.
GenderOf(i) == settled.items[i].value.predictedGender

\* C4: in a measurement batch a successful Uncertain result is displayed but
\* gets no record, and the store grows only by the number of Male and Female
\* results of the batch.
C4_UncertainMeasurementExcluded ==
    Completed /\ settled.kind = "Calculator" =>
        /\ \A i \in SucceededItems :
               GenderOf(i) = "Uncertain" =>
                   /\ \E j \in 1..Len(settled.succeeded) :
                          /\ settled.succeeded[j].id = settled.items[i].id
                          /\ settled.succeeded[j].predictedGender = "Uncertain"
                   /\ RecordsOf(settled.id, i) = {}
        /\ Len(analysisRecords) - settled.before
               = Cardinality({ i \in SucceededItems :
                                  GenderOf(i) \in { "Male", "Female" } })

\* C5: a successful Uncertain result of an image batch or of a live capture is
\* appended to the store, with its type, so that the Uncertain records of the
\* store all have analysisType Image or Live Camera.
C5_UncertainImageIncluded ==
    /\ \A n \in 1..Len(analysisRecords) :
           analysisRecords[n].gender = "Uncertain" =>
               analysisRecords[n].analysisType \in { "Image", "Live Camera" }
    /\ Completed /\ settled.kind \in { "Image", "Live Camera" } =>
           \A i \in SucceededItems :
               GenderOf(i) = "Uncertain" =>
                   \E n \in RecordsOf(settled.id, i) :
                       /\ n > settled.before
                       /\ analysisRecords[n].gender = "Uncertain"
                       /\ analysisRecords[n].analysisType = settled.kind

\* An image batch completed with an Uncertain answer of the service, and the
\* store holds its record.
C5_Witness ==
    /\ Completed
    /\ settled.kind = "Image"
    /\ \E i \in SucceededItems :
           /\ settled.items[i].value = Result("Uncertain", "Low", "model")
           /\ \E n \in RecordsOf(settled.id, i) :
                  analysisRecords[n].gender = "Uncertain"

\* The items of the submission just completed whose prediction call failed.
FailedCalls == { i \in 1..Len(settled.items) : settled.items[i].callFailed }

\* C6: an item whose prediction call failed (transport error, service error,
\* unparseable response) yields no prediction result: it is not among the
\* displayed results and the store gets no record of it.
C6_FailedCallYieldsNothing ==
    Completed =>
        /\ \A i \in FailedCalls :
               /\ settled.items[i].value = NoResult
               /\ RecordsOf(settled.id, i) = {}
        /\ settled.kind # "Live Camera" =>
               Len(settled.succeeded) <= Len(settled.items) - Cardinality(FailedCalls)
        /\ settled.kind = "Live Camera" /\ FailedCalls # {} /\ settled.mounted =>
               result = NoResult

\* The step is a click on the submit button of the mounted component.
SubmitClick == lastSubmit' # "none"

\* The step issues no prediction call, starts no submission and leaves the
\* store alone.
NothingDispatched ==
    /\ lastSubmit' \in { "invalid", "disabled" }
    /\ calls' = calls
    /\ nextBatch' = nextBatch
    /\ pending' = pending
    /\ loading' = loading
    /\ analysisRecords' = analysisRecords

\* C7: a submission whose batch number is empty or only whitespace is refused
\* in every component (image batch, live capture, measurement batch): no
\* prediction call is issued and the store is unchanged.
C7_BatchNumberRequired ==
    [][SubmitClick /\ Trim(batchNumber) = <<>> => NothingDispatched]_vars

\* The calculator refused rows that are all valid because the batch number
\* is a blank: "Batch Number is required.", and no call was made.
C7_Witness ==
    /\ lastSubmit = "invalid"
    /\ activeTab = "calculator"
    /\ batchNumber = << " " >>
    /\ \A k \in 1..Len(rows) :
           rows[k].length = <<"6">> /\ rows[k].width = <<"4">>
               /\ rows[k].weight = <<"5">>
    /\ "global" \in DOMAIN errors
    /\ calls = 0

\* A row that breaks a rule of the measurement input: a missing field, a
\* value that is no positive number, a width not below the length.
InvalidRow(row) ==
    \/ row.length = <<>> \/ row.width = <<>> \/ row.weight = <<>>
    \/ \E f \in RowFields : ParseFloat(row[f]).nan \/ ParseFloat(row[f]).v <= 0
    \/ ParseFloat(row.width).v >= ParseFloat(row.length).v

\* C8: measurement validation is all-or-nothing: when one row of a submission
\* is invalid, no prediction call is issued for any row, the valid ones
\* included, and the store is unchanged.
C8_ValidationAllOrNothing ==
    [][/\ SubmitClick
       /\ activeTab = "calculator"
       /\ \E k \in 1..Len(rows) : InvalidRow(rows[k])
       => NothingDispatched]_vars

\* The calculator refused a submission with a batch number, a valid first row
\* and a second row whose width exceeds its length; no call was made.
C8_Witness ==
    /\ lastSubmit = "invalid"
    /\ activeTab = "calculator"
    /\ Truthy(Trim(batchNumber))
    /\ Len(rows) = 2
    /\ ~InvalidRow(rows[1])
    /\ ParseFloat(rows[2].width).v > ParseFloat(rows[2].length).v
    /\ DOMAIN errors = { rows[2].id }
    /\ calls = 0

\* C9: a submission with an empty input set (no image, no measurement row) is
\* refused before dispatch: no call is issued and no batch goes in flight; and
\* every batch in flight has an item.
C9_EmptyInputRejected ==
    [][/\ (/\ SubmitClick
           /\ \/ activeTab = "image" /\ files = <<>>
              \/ activeTab = "calculator" /\ rows = <<>>
           => NothingDispatched)
       /\ \A b \in DOMAIN pending' : Len(pending'[b].items) >= 1]_vars

\* ImageAnalyzer, a batch number and no file: the click on the submit button
\* did nothing.
C9_Witness ==
    /\ lastSubmit = "disabled"
    /\ activeTab = "image"
    /\ files = <<>>
    /\ Truthy(Trim(batchNumber))
    /\ ~loading
    /\ nextBatch = 0

\* C10: while a call of a batch is unsettled the store holds no record of the
\* batch and the component it was submitted from displays no result of it,
\* whatever the calls that have settled.
C10_WaitForAll ==
    \A b \in DOMAIN pending :
        /\ \A n \in 1..Len(analysisRecords) : analysisRecords[n].batch # b
        /\ pending[b].mounted => loading /\ results = <<>> /\ result = NoResult

\* An image batch in flight with one call answered and one outstanding, in a
\* session whose store holds a record of an earlier submission.
C10_Witness ==
    \E b \in DOMAIN pending :
        /\ pending[b].mounted
        /\ \E i, j \in 1..Len(pending[b].items) :
               /\ pending[b].items[i].st = "fulfilled"
               /\ pending[b].items[j].st = "called"
        /\ Len(analysisRecords) >= 1

\* ---------------------------------------------------------------- C11
\* The items of the submissions in flight and of the one just completed.
ItemsInSight ==
    UNION { { pending[b].items[i] : i \in 1..Len(pending[b].items) } :
            b \in DOMAIN pending }
        \cup { settled.items[i] : i \in 1..Len(settled.items) }

\* C11 as stated: when a submission completes, exactly one prediction call has
\* been made for each of its inputs.
C11_OneCallPerInput ==
    Completed => \A i \in 1..Len(settled.items) : settled.items[i].nCalls = 1

\* C11, amended: an input whose data was read gets exactly one prediction call
\* (every measurement row, every camera frame, every image whose FileReader
\* succeeded), an image whose FileReader failed gets none and is rejected, and
\* no call is ever made a second time.
C11_OneCallPerReadInput ==
    /\ \A it \in ItemsInSight :
          it.nCalls = (IF it.st \in { "reading", "rejected" } THEN 0 ELSE 1)
    /\ calls <= dispatched

C11_Witness ==
    /\ Completed
    /\ settled.kind = "Image"
    /\ \E i, j \in 1..Len(settled.items) :
          /\ settled.items[i].st = "rejected"
          /\ settled.items[j].callFailed
          /\ settled.items[j].nCalls = 1

\* ---------------------------------------------------------------- C12
\* C12: at any time at most one submission is in flight in the session,
\* whatever tab the user submits from.
C12_OneBatchInFlight == Cardinality(DOMAIN pending) <= 1

\* ---------------------------------------------------------------- C13
\* s is a prefix of t.
IsPrefix(s, t) == Len(s) <= Len(t) /\ SubSeq(t, 1, Len(s)) = s

\* C13: RecordStore is append-only: in every step the record sequence before
\* the step is a prefix of the sequence after it, so no stored record is
\* modified, reordered or removed.
C13_AppendOnly == [][IsPrefix(analysisRecords, analysisRecords')]_vars

\* A submission has just appended a record to a store that held one already.
C13_Witness ==
    /\ Completed
    /\ settled.before >= 1
    /\ Len(analysisRecords) > settled.before

\* ---------------------------------------------------------------- C14
\* The records the chart summarises, and its summary, in the current state.
Filtered == filteredRecords(analysisRecords, selectedBatch)

Shown == Summary(analysisRecords, selectedBatch)

\* The number of records of recs whose gender is exactly g.
GenderCount(recs, g) == Cardinality({ i \in 1..Len(recs) : recs[i].gender = g })

\* C14: maleCount and femaleCount are the numbers of records of the filtered
\* set whose gender is exactly "Male" and exactly "Female", total is their
\* sum, and a record of any other gender adds to none of the three.
C14_CountsMaleAndFemaleOnly ==
    /\ Shown.maleCount = GenderCount(Filtered, "Male")
    /\ Shown.femaleCount = GenderCount(Filtered, "Female")
    /\ Shown.total = Shown.maleCount + Shown.femaleCount
    /\ Shown.total =
          Len(Filtered) - Cardinality({ i \in 1..Len(Filtered) :
                                          Filtered[i].gender \notin { "Male", "Female" } })

\* The chart summarises a Male, a Female and an Uncertain record.
C14_Witness ==
    /\ Len(Filtered) = 3
    /\ GenderCount(Filtered, "Uncertain") = 1
    /\ Shown.maleCount = 1
    /\ Shown.femaleCount = 1

\* ---------------------------------------------------------------- C15
\* The value of a ratio is v: num / den = v.
RatioIs(r, v) == r.den # 0 /\ r.num = v * r.den

C16_FilterExact ==
    IF pickedOption = AllBatchesOption
    THEN Filtered = analysisRecords
    ELSE Filtered = SelectSeq(analysisRecords,
                              LAMBDA r : r.batchNumber = pickedOption.value)

\* ---------------------------------------------------------------- C17
LineStep(st, c) ==
    IF c = "\n" THEN [lines |-> Append(st.lines, st.line), line |-> <<>>]
    ELSE [st EXCEPT !.line = Append(@, c)]

\* LineStep folded over the characters from..to of text, starting in state
\* st.  The range is halved rather than walked, and the first half is worked
\* out before the second is entered, so that a long text nests shallowly.
RECURSIVE FoldLines(_, _, _, _)
FoldLines(st, text, from, to) ==
    IF from > to THEN st
    ELSE IF from = to THEN LineStep(st, text[from])
    ELSE LET mid == (from + to) \div 2
             half == FoldLines(st, text, from, mid)
         IN  IF Len(half.line) >= 0 THEN FoldLines(half, text, mid + 1, to)
             ELSE half

\* The lines of a text: its pieces between line breaks.
Lines(text) ==
    LET st == FoldLines([lines |-> <<>>, line |-> <<>>], text, 1, Len(text))
    IN  Append(st.lines, st.line)

\* One character of a CSV reader: fields are separated by commas and rows by
\* line breaks, a field in double quotes runs to its closing quote, and inside
\* it two double quotes stand for one.  mode is "plain", "quoted", or "quote"
\* after a double quote met inside a quoted field.
CsvStep(st, c) ==
    IF st.mode = "quoted"
    THEN IF c = "\"" THEN [st EXCEPT !.mode = "quote"]
         ELSE [st EXCEPT !.field = Append(@, c)]
    ELSE IF c = "\""
    THEN IF st.mode = "quote"
         THEN [st EXCEPT !.mode = "quoted", !.field = Append(@, c)]
         ELSE [st EXCEPT !.mode = "quoted"]
    ELSE IF c = ","
    THEN [st EXCEPT !.mode = "plain", !.field = <<>>,
                    !.row = Append(@, st.field)]
    ELSE IF c = "\n"
    THEN [mode |-> "plain", field |-> <<>>, row |-> <<>>,
          rows |-> Append(st.rows, Append(st.row, st.field))]
    ELSE [st EXCEPT !.mode = "plain", !.field = Append(@, c)]

\* CsvStep folded over the characters from..to of text.
RECURSIVE FoldCsv(_, _, _, _)
FoldCsv(st, text, from, to) ==
    IF from > to THEN st
    ELSE IF from = to THEN CsvStep(st, text[from])
    ELSE LET mid == (from + to) \div 2
             half == FoldCsv(st, text, from, mid)
         IN  IF Len(half.field) >= 0 THEN FoldCsv(half, text, mid + 1, to)
             ELSE half

\* The rows of fields a CSV reader gets from a text.
ReadCsv(text) ==
    LET st == FoldCsv([mode |-> "plain", field |-> <<>>, row |-> <<>>,
                       rows |-> <<>>], text, 1, Len(text))
    IN  Append(st.rows, Append(st.row, st.field))

\* The six values of a record in the column order of the header.
Columns(r) ==
    << Chars(r.timestamp), r.batchNumber, Chars(r.analysisType), Chars(r.gender),
       Chars(r.confidence), Chars(r.reasoning) >>

\* value in double quotes, its own double quotes doubled.
Quoted(value) ==
    LET cell == formatCsvCell(value)
        inner == SubSeq(cell, 2, Len(cell) - 1)
    IN  /\ Len(cell) >= 2
        /\ cell[1] = "\"" /\ cell[Len(cell)] = "\""
        /\ Len(inner) = Len(value)
                + Cardinality({ k \in 1..Len(value) : value[k] = "\"" })
        /\ \A k \in 1..Len(inner) :
              inner[k] = "\"" =>
                  \/ k < Len(inner) /\ inner[k + 1] = "\""
                  \/ k > 1 /\ inner[k - 1] = "\""

HasLineBreak(r) ==
    \E c \in 1..6 : \E k \in 1..Len(Columns(r)[c]) : Columns(r)[c][k] = "\n"

\* C17 as stated: the exported file is the header line followed by exactly one
\* line per record of the snapshot, in insertion order, each line the six
\* quoted cells of its record.
C17_HeaderAndOneLinePerRecord ==
    exported # NoExport =>
        LET lines == Lines(exported.csvContent)
        IN  /\ Len(lines) = Len(exported.of) + 1
            /\ lines[1] = Join(headers, << "," >>)
            /\ \A k \in 1..Len(exported.of) :
                  lines[k + 1] = Join(CsvCells(exported.of[k]), << "," >>)

\* C17, amended: nothing is exported from an empty store; the file exported
\* from a snapshot of n >= 1 records reads back as the header row followed by
\* exactly n rows, in insertion order, each row the six values of its record
\* in the column order of the header; every cell of a data row is in double
\* quotes with its own double quotes doubled; a line break inside a value is
\* kept inside its quotes, so the file has one line per record only when no
\* value holds a line break.
C17_HeaderAndOneRowPerRecord ==
    /\ Len(analysisRecords) = 0 => exported = NoExport
    /\ exported # NoExport =>
           /\ ReadCsv(exported.csvContent)
                 = << headers >> \o [k \in 1..Len(exported.of) |->
                                         Columns(exported.of[k])]
           /\ \A k \in 1..Len(exported.of) :
                 \A c \in 1..6 : Quoted(Columns(exported.of[k])[c])
           /\ (\A k \in 1..Len(exported.of) : ~HasLineBreak(exported.of[k])) =>
                 Len(Lines(exported.csvContent)) = Len(exported.of) + 1

\* A file was exported from records one of which holds a double quote and
\* another a line break.
C17_Witness ==
    /\ exported # NoExport
    /\ \E j, k \in 1..Len(exported.of) :
          /\ HasLineBreak(exported.of[k])
          /\ \E x \in 1..Len(Columns(exported.of[j])[6]) :
                Columns(exported.of[j])[6][x] = "\""

\* ---------------------------------------------------------------- C18
\* The shape index si is (width / length) * 100 of the inputs, exactly.
ExactShapeIndex(si, inputs) ==
    /\ 0 < inputs.width /\ inputs.width < inputs.length
    /\ si.den # 0
    /\ si.num * inputs.length = inputs.width * 100 * si.den

\* The measurement submission dispatched by the step just taken, if any: its
\* items as built from the rows.
JustCalculated ==
    IF lastSubmit = "dispatched" /\ activeTab = "calculator"
    THEN (IF Completed THEN settled.items ELSE pending[nextBatch].items)
    ELSE <<>>

\* C18: the shape index of the item built for a validated row is
\* (width / length) * 100 of the row's parsed values, with no rounding and no
\* clamping, and the shape index of every displayed result is that value of
\* the result's own inputs.
C18_ShapeIndexExact ==
    /\ LET items == JustCalculated
       IN  /\ Len(items) > 0 => Len(items) = Len(rows)
           /\ \A k \in 1..Len(items) :
                 /\ items[k].inputs.length = ParseFloat(rows[k].length).v
                 /\ items[k].inputs.width = ParseFloat(rows[k].width).v
                 /\ ExactShapeIndex(items[k].shapeIndex, items[k].inputs)
    /\ \A b \in DOMAIN pending :
          pending[b].kind = "Calculator" =>
              \A k \in 1..Len(pending[b].items) :
                  ExactShapeIndex(pending[b].items[k].shapeIndex,
                                  pending[b].items[k].inputs)
    /\ activeTab = "calculator" =>
          \A k \in 1..Len(results) :
              ExactShapeIndex(results[k].shapeIndex, results[k].inputs)

\* A result is displayed whose shape index is not a whole number.
C18_Witness ==
    /\ activeTab = "calculator"
    /\ \E k \in 1..Len(results) :
          /\ results[k].inputs.length = 6
          /\ results[k].inputs.width = 4
          /\ results[k].shapeIndex.num % results[k].shapeIndex.den # 0

\* ---------------------------------------------------------------- C19
\* The batch number submission b was made with, seen from a step: the one its
\* handler holds, or the value of the field if the step is the submitting click.
SubmittedWith(b) ==
    IF b \in DOMAIN pending THEN pending[b].batchNumber ELSE batchNumber

\* C19: every stored record has a batch number that is not empty after
\* trimming, and every record of a submission carries the value the
\* batch-number field had when the submission was made, whatever is typed into
\* the field while its calls are outstanding.
C19_BatchNumberOfSubmission ==
    [][/\ \A k \in 1..Len(analysisRecords') :
             Truthy(Trim(analysisRecords'[k].batchNumber))
       /\ \A b \in DOMAIN pending' : pending'[b].batchNumber = SubmittedWith(b)
       /\ settled'.id # 0 =>
             \A k \in (Len(analysisRecords) + 1)..Len(analysisRecords') :
                 /\ analysisRecords'[k].batch = settled'.id
                 /\ analysisRecords'[k].batchNumber = SubmittedWith(settled'.id)
      ]_vars

\* A submission has stored a record after its batch-number field was edited.
C19_Witness ==
    /\ Completed
    /\ settled.mounted
    /\ batchNumber # settled.batchNumber
    /\ Len(analysisRecords) > settled.before
    /\ analysisRecords[Len(analysisRecords)].batchNumber = settled.batchNumber

\* ---------------------------------------------------------------- C20
\* Submission b has just completed and the store holds the record of each of
\* its items that succeeded and is not excluded.
Delivered(b) ==
    /\ Completed
    /\ settled.id = b
    /\ \A i \in CountedItems : Cardinality(RecordsOf(b, i)) = 1

\* C20: a dispatched submission cannot be aborted: when its calls settle, the
\* records of its successful, non-excluded items are appended, whatever the
\* user does while the calls are outstanding (switching tab, editing the batch
\* number, removing or clearing inputs).  In two parts: no step takes a
\* submission out of flight but its completion, which stores those records;
\* and when outstanding reads and requests end, every submission gets out of
\* flight.
C20_DispatchedIsDelivered ==
    /\ [][\A b \in DOMAIN pending : b \in DOMAIN pending' \/ Delivered(b)']_vars
    /\ \A b \in 1..MaxItems : []<>(b \notin DOMAIN pending)

\* A submission whose component was unmounted by a tab switch has completed
\* and stored a record.
C20_Witness ==
    /\ Completed
    /\ ~settled.mounted
    /\ CountedItems # {}
    /\ Delivered(settled.id)

\* ---------------------------------------------------------------- C21
\* The preview URLs created so far.
Created == 1..handles

\* The preview URLs of the images of the current file list.
Listed == IF activeTab = "image" THEN Previews(files) ELSE {}

\* The preview URLs of the images of submissions still in flight or just
\* completed.
Analysed == { it.preview : it \in ItemsInSight }

\* C21: every preview URL created on upload whose image is no longer in the
\* file list (after remove, clear-all or teardown of the component) has been
\* revoked, whether or not the image was analysed and whatever the outcome of
\* its analysis: the cleanup runs in the step that takes the image off the
\* list, so no created URL stays unrevoked after its image has left the list.
C21_PreviewsReleased ==
    \A h \in Created : h \notin Listed => h \in revoked

\* The image of an analysis still in flight has left the file list and its
\* preview URL is revoked.
C21_Witness ==
    \E h \in Created :
        /\ h \notin Listed
        /\ h \in revoked
        /\ h \in Analysed
        /\ DOMAIN pending # {}

\* ---------------------------------------------------------------- C22
\* C22: no preview URL is revoked while its image is displayed: the preview of
\* each image of the file list, and of each row of the displayed results of the
\* image analyzer, is not revoked.
C22_DisplayedPreviewsLive ==
    activeTab = "image" =>
        /\ \A k \in 1..Len(files) : files[k].preview \notin revoked
        /\ \A k \in 1..Len(results) : results[k].preview \notin revoked

\* ---------------------------------------------------------------- C23
\* The keys of the error map of the calculator.
ErrorKeys == DOMAIN errors

RowIds == { rows[k].id : k \in 1..Len(rows) }

\* C23: after a failed validation the error map has an entry under the id of a
\* row exactly when the row is invalid, an entry "global" exactly when the
\* trimmed batch number is empty, and no other entry; after a successful
\* validation the map is empty.
C23_ErrorMapExact ==
    /\ (activeTab = "calculator" /\ lastSubmit = "invalid") =>
          /\ \A k \in 1..Len(rows) :
                 rows[k].id \in ErrorKeys <=> InvalidRow(rows[k])
          /\ "global" \in ErrorKeys <=> Trim(batchNumber) = <<>>
          /\ ErrorKeys \subseteq RowIds \cup { "global" }
          /\ ErrorKeys # {}
    /\ (activeTab = "calculator" /\ lastSubmit = "dispatched") =>
          ErrorKeys = {}

\* A failed validation of two rows, one valid and one whose length is no
\* number, under a batch number that is not empty.
C23_Witness ==
    /\ activeTab = "calculator"
    /\ lastSubmit = "invalid"
    /\ Len(rows) = 2
    /\ "global" \notin ErrorKeys
    /\ \E k \in 1..2 : ParseFloat(rows[k].length).nan /\ rows[k].length # <<>>
                        /\ rows[k].id \in ErrorKeys
    /\ \E k \in 1..2 : rows[k].id \notin ErrorKeys

\* ---------------------------------------------------------------- C24
Genders == { "Male", "Female", "Uncertain" }

Confidences == { "High", "Medium", "Low" }

\* C24: every record of the store has a gender among Male, Female, Uncertain
\* and a confidence among High, Medium, Low, whatever strings the service
\* returns; a record of analysis type Calculator has gender Male or Female.
C24_RecordsWellTyped ==
    \A k \in 1..Len(analysisRecords) :
        /\ analysisRecords[k].gender \in Genders
        /\ analysisRecords[k].confidence \in Confidences
        /\ analysisRecords[k].analysisType = "Calculator" =>
               analysisRecords[k].gender \in { "Male", "Female" }

\* ---------------------------------------------------------------- C25
\* The records appended by the submission just completed.
NewRecordIndexes == (settled.before + 1)..Len(analysisRecords)

\* The times at which the promises of the submission just completed settled.
SettleTimes == { settled.items[i].at : i \in 1..Len(settled.items) }

\* C25: the timestamp of a record is read when the record is constructed: it
\* is the clock reading of the step in which the last call of its submission
\* settled, at or after the settle of every call of the submission and at or
\* after the submission itself, whatever the time of the submission was; and
\* the timestamps never decrease along the insertion order of the store.
C25_TimestampAtConstruction ==
    /\ Completed =>
          \A k \in NewRecordIndexes :
              /\ analysisRecords[k].timestamp = now
              /\ \A t \in SettleTimes : t <= analysisRecords[k].timestamp
              /\ analysisRecords[k].timestamp \in SettleTimes
              /\ settled.submittedAt <= analysisRecords[k].timestamp
    /\ \A j, k \in 1..Len(analysisRecords) :
          j < k => analysisRecords[j].timestamp <= analysisRecords[k].timestamp

\* A submission completes after one that was made later: its records are
\* stamped later than its submission and later than the records already in
\* the store.
C25_Witness ==
    /\ Completed
    /\ settled.before > 0
    /\ Len(analysisRecords) > settled.before
    /\ analysisRecords[1].batch > settled.id
    /\ analysisRecords[1].timestamp < analysisRecords[Len(analysisRecords)].timestamp
    /\ settled.submittedAt < analysisRecords[Len(analysisRecords)].timestamp

\* ---------------------------------------------------------------- C26
\* The fulfilled inputs of the submission just completed, in the order of the
\* submitted list.
FulfilledInputs == SelectSeq(settled.items, LAMBDA it : it.st = "fulfilled")

\* C26: when a batch completes, its records are appended in the order of
\* their inputs in the submitted list, and the displayed results list the
\* fulfilled inputs in that order, whatever the order in which the calls
\* settled.
C26_InputOrderKept ==
    BatchCompleted =>
        /\ \A j, k \in NewRecordIndexes :
               j < k => analysisRecords[j].item < analysisRecords[k].item
        /\ settled.mounted =>
               /\ Len(results) = Len(FulfilledInputs)
               /\ \A k \in 1..Len(results) :
                      /\ results[k].id = FulfilledInputs[k].id
                      /\ results[k].predictedGender
                             = FulfilledInputs[k].value.predictedGender

\* A batch of two inputs whose second call settled before the first, both
\* displayed and both recorded.
C26_Witness ==
    /\ BatchCompleted
    /\ settled.mounted
    /\ Len(settled.items) = 2
    /\ settled.items[2].at < settled.items[1].at
    /\ Len(results) = 2
    /\ results[1].predictedGender # results[2].predictedGender
    /\ Len(analysisRecords) = settled.before + 2

\* ---------------------------------------------------------------- C27
\* C27: the records of one submission form one block of the store: no record
\* of another batch or of a live capture lies between two of them, also when
\* two submissions overlap in time.
C27_BatchContiguous ==
    \A j, k, l \in 1..Len(analysisRecords) :
        (j < k /\ k < l /\ analysisRecords[j].batch = analysisRecords[l].batch)
            => analysisRecords[k].batch = analysisRecords[j].batch

\* A batch of two records completes after a submission made later has
\* already put its record in the store.
C27_Witness ==
    /\ Completed
    /\ Len(analysisRecords) = 3
    /\ settled.before = 1
    /\ analysisRecords[1].batch > settled.id
    /\ analysisRecords[2].batch = settled.id
    /\ analysisRecords[3].batch = settled.id

\* ---------------------------------------------------------------- C28
\* The items of the submission made by the click just handled.
JustDispatched ==
    IF nextBatch \in DOMAIN pending THEN pending[nextBatch].items
    ELSE IF settled.id = nextBatch THEN settled.items
    ELSE <<>>

\* C28: whatever rows were added, removed, edited or cleared, the calculator
\* shows at least one row and the ids of its rows are pairwise distinct; a
\* click on "Calculate Batch" that passes validation dispatches at least one
\* prediction call, one per row.
C28_RowsNeverEmpty ==
    activeTab = "calculator" =>
        /\ Len(rows) >= 1
        /\ \A j, k \in 1..Len(rows) : rows[j].id = rows[k].id => j = k
        /\ lastSubmit = "dispatched" =>
               /\ Len(JustDispatched) = Len(rows)
               /\ \A i \in 1..Len(JustDispatched) :
                      /\ JustDispatched[i].nCalls = 1
                      /\ JustDispatched[i].id = rows[i].id

\* The first of two rows was removed and the row that is left was submitted.
C28_Witness ==
    /\ activeTab = "calculator"
    /\ edits = 1
    /\ Len(rows) = 1
    /\ rows[1].id = RowId(2)
    /\ lastSubmit = "dispatched"
    /\ Len(JustDispatched) = 1

\* ---------------------------------------------------------------- C29
\* The fallback both prediction functions resolve to: Uncertain, Low.
IsFallback(value) ==
    value.predictedGender = "Uncertain" /\ value.confidence = "Low"

\* C29: the prediction functions never reject.  Without an API key no request
\* is ever outstanding and every call made has resolved to an Uncertain/Low
\* result; a call whose request or response parsing failed has resolved to an
\* Uncertain/Low result; and a rejected promise is one whose prediction
\* function was never called (its FileReader failed).
C29_PredictNeverRejects ==
    \A it \in ItemsInSight :
        /\ ~apiKey =>
               /\ it.st # "called"
               /\ it.nCalls >= 1 =>
                      /\ it.st = "fulfilled"
                      /\ it.value = MissingKeyResult
                      /\ IsFallback(it.value)
        /\ it.callFailed => it.st = "fulfilled" /\ IsFallback(it.value)
        /\ it.st = "rejected" => it.nCalls = 0

\* A submission has completed with a call whose request failed: the call
\* resolved to the fallback.
C29_Witness ==
    /\ Completed
    /\ \E i \in 1..Len(settled.items) :
           /\ settled.items[i].callFailed
           /\ settled.items[i].st = "fulfilled"
           /\ IsFallback(settled.items[i].value)

\* ---------------------------------------------------------------- C30
\* C30: a step that exports the report or changes the batch filter of the
\* chart leaves the store as it was, same records in the same order, and
\* while the store is empty no step produces a file.
C30_ReportingReadsOnly ==
    [][/\ (exported' # exported \/ selectedBatch' # selectedBatch
               \/ pickedOption' # pickedOption)
              => analysisRecords' = analysisRecords
       /\ Len(analysisRecords) = 0 => exported' = exported]_vars

\* The full store was exported under a batch filter, and it is the store the
\* file was made from.
C30_Witness ==
    /\ Len(analysisRecords) = MaxRecords
    /\ pickedOption # AllBatchesOption
    /\ exported # NoExport
    /\ exported.of = analysisRecords

====
